---- MODULE Spec2Model ----
(***************************************************************************)
(* Model of the Cache-Aware-Benchmark executables:                         *)
(*   false_sharing   (src/unnamed/part_000)                                *)
(*   cache_alignment (src/cache_alignment/cache_alignment.cpp)             *)
(*   soa_vs_aos      (src/soa_vs_aos/soa_vs_aos.cpp, lines 75-128)         *)
(*   heap_vs_pool    (src/soa_vs_aos/soa_vs_aos.cpp, lines 182-245)        *)
(*   numa_access     (src/numa_access/numa_access.cpp)                     *)
(* Each program is a main thread walking through its statements (pc); the  *)
(* false-sharing program additionally runs two worker threads whose        *)
(* load / store steps interleave freely.  Every allocating call may fail,  *)
(* as the C and C++ library allows, including the allocations the standard *)
(* library makes on the programs' behalf (std::thread state, std::string   *)
(* label temporaries, std::vector buffers; libstdc++ behaviour).  The      *)
(* programs' reaction to a failure is what the source does with it: no     *)
(* program has an exception handler, so a throw ends in std::terminate.    *)
(***************************************************************************)
EXTENDS Integers, Sequences, FiniteSets, TLC

\* ---------------------------------------------------------------- bounds
\* NUM_ITERATIONS of the false-sharing program (1'000'000'000 in the source)
NumIterations == 3
\* NUM_STRUCTS of the cache-alignment program (1'000'000 in the source)
NumStructs == 2
\* NUM_ITERATIONS of the cache-alignment program (100 in the source)
CaIterations == 2
\* NUM_PARTICLES of the AoS/SoA program (100'000'000 in the source)
NumParticles == 2
\* NUM_OBJECTS of the heap-vs-pool program (10'000'000 in the source)
NumObjects == 3
\* NUM_ITERATIONS of the NUMA program (500'000'000 in the source)
NumaIterations == 3
\* DATA_SIZE of the NUMA program (1024 * 1024 in the source)
DataSize == 2
\* largest number of NUMA nodes the machine may have (0: NUMA unavailable)
MaxNodes == 2

\* ------------------------------------------------------ program constants
IntsPerStruct == 16
CACHE_LINE_SIZE == 64
SizeofTrade == 24
SizeofTradePtr == 8
SizeofParticleAoS == 12
SizeofFloat == 4
ThreadStateBytes == 16
SysErrTmpBytes == 33
SysErrWhatBytes == 57
LibnumaMaskBytes == 16
LibnumaStreamBytes == 472

Programs == {"false_sharing", "cache_alignment", "soa_vs_aos", "heap_vs_pool",
             "numa_access"}

Null == <<"null", 0>>

VARIABLES
    prog,         \* which executable is running
    numaNodes,    \* number of NUMA nodes of the machine (0: libnuma unusable)
    pc,           \* position of the main thread
    run,          \* index of the variant being executed (1 or 2)
    i,            \* loop counter of the main thread
    timer,        \* "idle" | "running" (start taken) | "stopped" (end taken)
    reported,     \* labels printed to std::cout, in order
    sum,          \* accumulator of the scan loops
    live,         \* outstanding dynamically acquired regions
    acqLog,       \* every successful acquisition, in order
    relLog,       \* every release call on a non-null pointer, in order
    failed,       \* acquisition attempts that failed
    ptr,          \* pointer variables of the programs
    trades,       \* std::vector<Trade*> of heapAllocationBenchmark
    contents,     \* contents of the regions the pointer variables refer to
    touched,      \* <<region, label>>: the run labelled so accessed the region
    constructed,  \* per pool slot: number of placement-new executions
    destructed,   \* per pool slot: number of explicit destructor calls
    cpuNode,      \* node the NUMA main thread was bound to by the program (-1: none)
    scanLog,      \* scan loops entered by runBenchmark: node, region
    tpc,          \* position of each worker thread
    ti,           \* loop counter of each worker thread
    treg,         \* register holding the loaded field of each worker thread
    dataFalse,    \* global SharedDataFalseSharing
    dataNoFalse   \* global SharedDataNoFalseSharing

vars == <<prog, numaNodes, pc, run, i, timer, reported, sum, live, acqLog,
          relLog, failed, ptr, trades, contents, touched, constructed,
          destructed, cpuNode, scanLog, tpc, ti, treg, dataFalse, dataNoFalse>>

PtrVars == {"unalignedArr", "alignedArr", "memory", "newTrade",
            "particles", "x", "y", "z"}
Slots   == 0 .. (NumObjects - 1)
Threads == {1, 2}

Terminal == {"exit0", "exit1", "terminate", "abort", "segv"}

\* --------------------------------------------------------------- helpers
RECURSIVE SumSeq(_)
SumSeq(s) == IF s = <<>> THEN 0 ELSE Head(s) + SumSeq(Tail(s))

Zeros(n) == [k \in 1 .. n |-> 0]

\* a char incremented and stored back (two's complement, 8 bits)
WrapChar(v) == ((v + 128) % 256) - 128

\* a successful acquisition: the region becomes outstanding
Acquire(id, prov, size) ==
    /\ live'   = live \cup {[id |-> id, prov |-> prov, size |-> size]}
    /\ acqLog' = Append(acqLog, [id |-> id, prov |-> prov, size |-> size])
    /\ UNCHANGED <<relLog, failed>>

\* a failed acquisition: nothing becomes outstanding
AcqFail(prov, size) ==
    /\ failed' = failed \cup {[prov |-> prov, size |-> size]}
    /\ UNCHANGED <<live, acqLog, relLog>>

\* a release call; on a null pointer free / delete do nothing
Release(p, proc, size) ==
    IF p = Null
    THEN UNCHANGED <<live, acqLog, relLog, failed>>
    ELSE /\ live'   = {b \in live : b.id # p}
         /\ relLog' = Append(relLog, [id |-> p, by |-> proc, size |-> size])
         /\ UNCHANGED <<acqLog, failed>>

Init ==
    /\ prog \in Programs
    /\ numaNodes \in (IF prog = "numa_access" THEN 0 .. MaxNodes ELSE {1})
    /\ pc = CASE prog = "false_sharing"   -> "fs_start"
              [] prog = "cache_alignment" -> "ca_new"
              [] prog = "soa_vs_aos"      -> "ao_alloc"
              [] prog = "heap_vs_pool"    -> "hp_start"
              [] prog = "numa_access"     -> "nu_available"
    /\ run = 1
    /\ i = 0
    /\ timer = "idle"
    /\ reported = <<>>
    /\ sum = 0
    /\ live = {}
    /\ acqLog = <<>>
    /\ relLog = <<>>
    /\ failed = {}
    /\ ptr = [v \in PtrVars |-> Null]
    /\ trades = <<>>
    /\ contents = [v \in PtrVars |-> <<>>]
    /\ touched = {}
    /\ constructed = [s \in Slots |-> 0]
    /\ destructed = [s \in Slots |-> 0]
    /\ cpuNode = -1
    /\ scanLog = {}
    /\ tpc = [k \in Threads |-> "unspawned"]
    /\ ti = [k \in Threads |-> 0]
    /\ treg = [k \in Threads |-> 0]
    /\ dataFalse = [x |-> 0, y |-> 0]
    /\ dataNoFalse = [x |-> 0, y |-> 0]

\* ===================================================== false_sharing
\* src/unnamed/part_000

Labels_fs == <<"FALSE SHARING", "NO FALSE SHARING (padded)">>

\* the field a worker increments: threadFunc1 -> x, threadFunc2 -> y
FieldShared(k) == "x"
Field(k) == IF k = 1 THEN "x" ELSE "y"

\* the global the current variant works on
CurData == IF run = 1 THEN dataFalse ELSE dataNoFalse

\* the state object the std::thread constructor allocates for t1 / t2
ThreadState(k) == <<IF k = 1 THEN "t1_state" ELSE "t2_state", run>>

\* std::thread::join returns only once the thread function has returned
JoinReadyNoWait(k) == tpc[k] # "unspawned"
JoinReady(k) == tpc[k] = "done"

\* auto start = high_resolution_clock::now();
FsStart ==
    /\ prog = "false_sharing" /\ pc = "fs_start"
    /\ timer' = "running"
    /\ pc' = "fs_spawn1"
    /\ UNCHANGED <<prog, numaNodes, run, i, reported, sum, live,
                   acqLog, relLog, failed, ptr, trades,
                   contents, touched, constructed,
                   destructed, cpuNode, scanLog, tpc, ti,
                   treg, dataFalse, dataNoFalse>>

\* the two strings allocated while a std::system_error is built, when a
\* thread cannot be started
SysErrTmp  == [id |-> <<"syserr_tmp", run>>, prov |-> "std::allocator",
               size |-> SysErrTmpBytes]
SysErrWhat == [id |-> <<"syserr_what", run>>, prov |-> "std::allocator",
               size |-> SysErrWhatBytes]

\* std::thread t1(threadFunc1);  std::thread t2(threadFunc2);
\* The constructor first allocates the thread's state object; the allocation
\* throws std::bad_alloc on failure.  Workers already started keep running
\* while the main thread is inside the constructor.
FsNewState(k) ==
    /\ prog = "false_sharing"
    /\ pc = (IF k = 1 THEN "fs_spawn1" ELSE "fs_spawn2")
    /\ \/ /\ Acquire(ThreadState(k), "new _State", ThreadStateBytes)
          /\ pc' = (IF k = 1 THEN "fs_create1" ELSE "fs_create2")
       \/ /\ AcqFail("new _State", ThreadStateBytes)
          /\ pc' = "fs_throw"
    /\ UNCHANGED <<prog, numaNodes, run, i, timer, reported, sum,
                   ptr, trades, contents, touched,
                   constructed, destructed, cpuNode, scanLog,
                   tpc, ti, treg, dataFalse, dataNoFalse>>

\* the constructor then starts the thread (pthread_create).  When the thread
\* cannot be started the state object is not freed and the constructor goes
\* on to build a std::system_error.
FsSpawn(k) ==
    /\ prog = "false_sharing"
    /\ pc = (IF k = 1 THEN "fs_create1" ELSE "fs_create2")
    /\ \/ /\ tpc' = [tpc EXCEPT ![k] = "test"]
          /\ ti' = [ti EXCEPT ![k] = 0]
          /\ pc' = (IF k = 1 THEN "fs_spawn2" ELSE "fs_join1")
          /\ UNCHANGED failed
       \/ /\ failed' = failed \cup {[prov |-> "pthread_create", size |-> 0]}
          /\ pc' = "fs_syserr_tmp"
          /\ UNCHANGED <<tpc, ti>>
    /\ UNCHANGED <<prog, numaNodes, run, i, timer, reported, sum,
                   live, acqLog, relLog, ptr, trades,
                   contents, touched, constructed,
                   destructed, cpuNode, scanLog, treg,
                   dataFalse, dataNoFalse>>

\* building the std::system_error: the temporary message string
FsSysErrTmp ==
    /\ prog = "false_sharing" /\ pc = "fs_syserr_tmp"
    /\ \/ /\ Acquire(SysErrTmp.id, SysErrTmp.prov, SysErrTmp.size)
          /\ pc' = "fs_syserr_what"
       \/ /\ AcqFail("std::allocator", SysErrTmpBytes)
          /\ pc' = "fs_throw"
    /\ UNCHANGED <<prog, numaNodes, run, i, timer, reported, sum,
                   ptr, trades, contents, touched,
                   constructed, destructed, cpuNode, scanLog,
                   tpc, ti, treg, dataFalse, dataNoFalse>>

\* building the std::system_error: the what() string
FsSysErrWhat ==
    /\ prog = "false_sharing" /\ pc = "fs_syserr_what"
    /\ \/ /\ Acquire(SysErrWhat.id, SysErrWhat.prov, SysErrWhat.size)
          /\ pc' = "fs_syserr_free"
       \/ /\ AcqFail("std::allocator", SysErrWhatBytes)
          /\ pc' = "fs_throw"
    /\ UNCHANGED <<prog, numaNodes, run, i, timer, reported, sum,
                   ptr, trades, contents, touched,
                   constructed, destructed, cpuNode, scanLog,
                   tpc, ti, treg, dataFalse, dataNoFalse>>

\* building the std::system_error: the temporary string is destroyed, then
\* the exception is thrown
FsSysErrTmpFree ==
    /\ prog = "false_sharing" /\ pc = "fs_syserr_free"
    /\ Release(SysErrTmp.id, "std::allocator", SysErrTmpBytes)
    /\ pc' = "fs_throw"
    /\ UNCHANGED <<prog, numaNodes, run, i, timer, reported, sum,
                   ptr, trades, contents, touched,
                   constructed, destructed, cpuNode, scanLog,
                   tpc, ti, treg, dataFalse, dataNoFalse>>

\* nothing catches the exception: std::terminate, without unwinding; abort()
\* ends the process, and with it the workers, which ran until then
FsTerminate ==
    /\ prog = "false_sharing" /\ pc = "fs_throw"
    /\ pc' = "terminate"
    /\ UNCHANGED <<prog, numaNodes, run, i, timer, reported, sum,
                   live, acqLog, relLog, failed, ptr, trades,
                   contents, touched, constructed,
                   destructed, cpuNode, scanLog, tpc, ti,
                   treg, dataFalse, dataNoFalse>>

\* for (size_t i = 0; i < NUM_ITERATIONS; ++i)   -- the loop test
ThreadTest(k) ==
    /\ pc \notin Terminal
    /\ tpc[k] = "test"
    /\ tpc' = [tpc EXCEPT ![k] = IF ti[k] < NumIterations THEN "load" ELSE "ret"]
    /\ UNCHANGED <<prog, numaNodes, pc, run, i, timer, reported,
                   sum, live, acqLog, relLog, failed, ptr,
                   trades, contents, touched, constructed,
                   destructed, cpuNode, scanLog, ti, treg,
                   dataFalse, dataNoFalse>>

\* data.f++ on a volatile int: the load
ThreadLoad(k) ==
    /\ pc \notin Terminal
    /\ tpc[k] = "load"
    /\ treg' = [treg EXCEPT ![k] = CurData[Field(k)]]
    /\ tpc' = [tpc EXCEPT ![k] = "store"]
    /\ touched' = touched \cup
         {<<IF run = 1 THEN <<"dataFalse", 0>> ELSE <<"dataNoFalse", 0>>, Labels_fs[run]>>}
    /\ UNCHANGED <<prog, numaNodes, pc, run, i, timer, reported,
                   sum, live, acqLog, relLog, failed, ptr,
                   trades, contents, constructed, destructed,
                   cpuNode, scanLog, ti, dataFalse,
                   dataNoFalse>>

\* data.f++ on a volatile int: the store of the incremented value, then ++i
ThreadStore(k) ==
    /\ pc \notin Terminal
    /\ tpc[k] = "store"
    /\ IF run = 1
       THEN /\ dataFalse' = [dataFalse EXCEPT ![Field(k)] = treg[k] + 1]
            /\ UNCHANGED dataNoFalse
       ELSE /\ dataNoFalse' = [dataNoFalse EXCEPT ![Field(k)] = treg[k] + 1]
            /\ UNCHANGED dataFalse
    /\ ti' = [ti EXCEPT ![k] = ti[k] + 1]
    /\ tpc' = [tpc EXCEPT ![k] = "test"]
    /\ UNCHANGED <<prog, numaNodes, pc, run, i, timer, reported,
                   sum, live, acqLog, relLog, failed, ptr,
                   trades, contents, touched, constructed,
                   destructed, cpuNode, scanLog, treg>>

\* the thread function has returned: the new thread frees its state object
\* and ends
ThreadExit(k) ==
    /\ pc \notin Terminal
    /\ tpc[k] = "ret"
    /\ Release(ThreadState(k), "delete _State", 0)
    /\ tpc' = [tpc EXCEPT ![k] = "done"]
    /\ UNCHANGED <<prog, numaNodes, pc, run, i, timer, reported,
                   sum, ptr, trades, contents, touched,
                   constructed, destructed, cpuNode, scanLog,
                   ti, treg, dataFalse, dataNoFalse>>

\* t1.join();  t2.join();
FsJoin(k) ==
    /\ prog = "false_sharing"
    /\ pc = (IF k = 1 THEN "fs_join1" ELSE "fs_join2")
    /\ JoinReady(k)
    /\ tpc' = [tpc EXCEPT ![k] = "joined"]
    /\ pc' = (IF k = 1 THEN "fs_join2" ELSE "fs_end")
    /\ UNCHANGED <<prog, numaNodes, run, i, timer, reported, sum,
                   live, acqLog, relLog, failed, ptr, trades,
                   contents, touched, constructed,
                   destructed, cpuNode, scanLog, ti, treg,
                   dataFalse, dataNoFalse>>

\* auto end = high_resolution_clock::now();
FsEnd ==
    /\ prog = "false_sharing" /\ pc = "fs_end"
    /\ timer' = "stopped"
    /\ pc' = "fs_report"
    /\ UNCHANGED <<prog, numaNodes, run, i, reported, sum, live,
                   acqLog, relLog, failed, ptr, trades,
                   contents, touched, constructed,
                   destructed, cpuNode, scanLog, tpc, ti,
                   treg, dataFalse, dataNoFalse>>

\* std::cout << ... ; return.  main then calls the next variant or returns 0.
\* The thread objects and timestamps are locals of the variant's function.
FsReport ==
    /\ prog = "false_sharing" /\ pc = "fs_report"
    /\ reported' = Append(reported, Labels_fs[run])
    /\ timer' = "idle"
    /\ IF run = 1
       THEN /\ run' = 2
            /\ pc' = "fs_start"
            /\ tpc' = [k \in Threads |-> "unspawned"]
            /\ ti' = [k \in Threads |-> 0]
       ELSE /\ pc' = "exit0"
            /\ UNCHANGED <<run, tpc, ti>>
    /\ UNCHANGED <<prog, numaNodes, i, sum, live, acqLog, relLog,
                   failed, ptr, trades, contents, touched,
                   constructed, destructed, cpuNode, scanLog,
                   treg, dataFalse, dataNoFalse>>

FalseSharing ==
    \/ FsStart
    \/ \E k \in Threads : FsNewState(k)
    \/ \E k \in Threads : FsSpawn(k)
    \/ FsSysErrTmp
    \/ FsSysErrWhat
    \/ FsSysErrTmpFree
    \/ FsTerminate
    \/ \E k \in Threads : ThreadTest(k)
    \/ \E k \in Threads : ThreadLoad(k)
    \/ \E k \in Threads : ThreadStore(k)
    \/ \E k \in Threads : ThreadExit(k)
    \/ \E k \in Threads : FsJoin(k)
    \/ FsEnd
    \/ FsReport

\* ===================================================== cache_alignment
\* src/cache_alignment/cache_alignment.cpp

Labels_ca == <<"Unaligned access", "Aligned access">>

\* bytes the std::string built from each label literal allocates (the
\* literals are longer than the small-string buffer)
LabelBytes_ca == <<21, 19>>

\* the std::string temporary bound to 'const std::string& label'
LabelString == <<"label", run>>

\* sizeof(UnalignedStruct) * NUM_STRUCTS == sizeof(AlignedStruct) * NUM_STRUCTS
ArrayBytes == IntsPerStruct * 4 * NumStructs

\* the array main hands to the v-th benchmarkAccess call
CaBenchArgSame(v) == "unalignedArr"
CaBenchArg(v) == IF v = 1 THEN "unalignedArr" ELSE "alignedArr"

\* UnalignedStruct* unalignedArr = new UnalignedStruct[NUM_STRUCTS];
\* operator new[] throws std::bad_alloc on failure; main has no handler.
CaNew ==
    /\ prog = "cache_alignment" /\ pc = "ca_new"
    /\ \/ /\ Acquire(<<"unalignedArr", 0>>, "new[]", ArrayBytes)
          /\ ptr' = [ptr EXCEPT !["unalignedArr"] = <<"unalignedArr", 0>>]
          /\ pc' = "ca_memset1"
       \/ /\ AcqFail("new[]", ArrayBytes)
          /\ pc' = "terminate"
          /\ UNCHANGED ptr
    /\ UNCHANGED <<prog, numaNodes, run, i, timer, reported, sum,
                   trades, contents, touched, constructed,
                   destructed, cpuNode, scanLog, tpc, ti,
                   treg, dataFalse, dataNoFalse>>

\* std::memset(unalignedArr, 0, sizeof(UnalignedStruct) * NUM_STRUCTS);
CaMemset1 ==
    /\ prog = "cache_alignment" /\ pc = "ca_memset1"
    /\ contents' = [contents EXCEPT !["unalignedArr"] = Zeros(IntsPerStruct * NumStructs)]
    /\ pc' = "ca_aligned_alloc"
    /\ UNCHANGED <<prog, numaNodes, run, i, timer, reported, sum,
                   live, acqLog, relLog, failed, ptr, trades,
                   touched, constructed, destructed, cpuNode,
                   scanLog, tpc, ti, treg, dataFalse,
                   dataNoFalse>>

\* void* rawPtr = std::aligned_alloc(CACHE_LINE_SIZE, sizeof(AlignedStruct) * NUM_STRUCTS);
\* returns a null pointer on failure; the size must be a multiple of the alignment.
CaAlignedAlloc ==
    /\ prog = "cache_alignment" /\ pc = "ca_aligned_alloc"
    /\ \/ /\ ArrayBytes % CACHE_LINE_SIZE = 0
          /\ Acquire(<<"alignedArr", 0>>, "aligned_alloc", ArrayBytes)
          /\ ptr' = [ptr EXCEPT !["alignedArr"] = <<"alignedArr", 0>>]
       \/ /\ AcqFail("aligned_alloc", ArrayBytes)
          /\ UNCHANGED ptr
    /\ pc' = "ca_assert"
    /\ UNCHANGED <<prog, numaNodes, run, i, timer, reported, sum,
                   trades, contents, touched, constructed,
                   destructed, cpuNode, scanLog, tpc, ti,
                   treg, dataFalse, dataNoFalse>>

\* assert(rawPtr != nullptr && "aligned_alloc failed");
\* With assertions compiled in a null rawPtr aborts the process; with NDEBUG
\* the statement is empty and control reaches the memset.
CaAssert ==
    /\ prog = "cache_alignment" /\ pc = "ca_assert"
    /\ IF ptr["alignedArr"] # Null
       THEN pc' = "ca_memset2"
       ELSE pc' \in {"abort", "ca_memset2"}
    /\ UNCHANGED <<prog, numaNodes, run, i, timer, reported, sum,
                   live, acqLog, relLog, failed, ptr, trades,
                   contents, touched, constructed,
                   destructed, cpuNode, scanLog, tpc, ti,
                   treg, dataFalse, dataNoFalse>>

\* std::memset(alignedArr, 0, sizeof(AlignedStruct) * NUM_STRUCTS);
\* writing through a null pointer faults.
CaMemset2 ==
    /\ prog = "cache_alignment" /\ pc = "ca_memset2"
    /\ IF ptr["alignedArr"] = Null
       THEN /\ pc' = "segv"
            /\ UNCHANGED contents
       ELSE /\ contents' = [contents EXCEPT !["alignedArr"] = Zeros(IntsPerStruct * NumStructs)]
            /\ pc' = "ca_label"
    /\ UNCHANGED <<prog, numaNodes, run, i, timer, reported, sum,
                   live, acqLog, relLog, failed, ptr, trades,
                   touched, constructed, destructed, cpuNode,
                   scanLog, tpc, ti, treg, dataFalse,
                   dataNoFalse>>

\* main: benchmarkAccess(arr, NUM_STRUCTS, "...") -- the std::string temporary
\* for the label parameter is built before the call; its allocation throws
\* std::bad_alloc on failure.
CaLabel ==
    /\ prog = "cache_alignment" /\ pc = "ca_label"
    /\ \/ /\ Acquire(LabelString, "std::allocator", LabelBytes_ca[run])
          /\ pc' = "ca_bstart"
       \/ /\ AcqFail("std::allocator", LabelBytes_ca[run])
          /\ pc' = "terminate"
    /\ UNCHANGED <<prog, numaNodes, run, i, timer, reported, sum,
                   ptr, trades, contents, touched,
                   constructed, destructed, cpuNode, scanLog,
                   tpc, ti, treg, dataFalse, dataNoFalse>>

\* benchmarkAccess: volatile long long sum = 0; auto start = now();
CaBenchStart ==
    /\ prog = "cache_alignment" /\ pc = "ca_bstart"
    /\ sum' = 0
    /\ timer' = "running"
    /\ pc' = "ca_scan"
    /\ UNCHANGED <<prog, numaNodes, run, i, reported, live, acqLog,
                   relLog, failed, ptr, trades, contents,
                   touched, constructed, destructed, cpuNode,
                   scanLog, tpc, ti, treg, dataFalse,
                   dataNoFalse>>

\* benchmarkAccess: the three nested loops, sum += arr[i].data[j]
CaBenchScan ==
    /\ prog = "cache_alignment" /\ pc = "ca_scan"
    /\ sum' = sum + CaIterations * SumSeq(contents[CaBenchArg(run)])
    /\ touched' = touched \cup {<<ptr[CaBenchArg(run)], Labels_ca[run]>>}
    /\ pc' = "ca_bend"
    /\ UNCHANGED <<prog, numaNodes, run, i, timer, reported, live,
                   acqLog, relLog, failed, ptr, trades,
                   contents, constructed, destructed,
                   cpuNode, scanLog, tpc, ti, treg,
                   dataFalse, dataNoFalse>>

\* benchmarkAccess: auto end = now();
CaBenchEnd ==
    /\ prog = "cache_alignment" /\ pc = "ca_bend"
    /\ timer' = "stopped"
    /\ pc' = "ca_breport"
    /\ UNCHANGED <<prog, numaNodes, run, i, reported, sum, live,
                   acqLog, relLog, failed, ptr, trades,
                   contents, touched, constructed,
                   destructed, cpuNode, scanLog, tpc, ti,
                   treg, dataFalse, dataNoFalse>>

\* benchmarkAccess: std::cout << label << ... ; return duration;
CaBenchReport ==
    /\ prog = "cache_alignment" /\ pc = "ca_breport"
    /\ reported' = Append(reported, Labels_ca[run])
    /\ timer' = "idle"
    /\ pc' = "ca_lfree"
    /\ UNCHANGED <<prog, numaNodes, run, i, sum, live, acqLog,
                   relLog, failed, ptr, trades, contents,
                   touched, constructed, destructed, cpuNode,
                   scanLog, tpc, ti, treg, dataFalse,
                   dataNoFalse>>

\* main: end of the full expression -- the label temporary is destroyed;
\* then the next benchmarkAccess call or the releases
CaLabelFree ==
    /\ prog = "cache_alignment" /\ pc = "ca_lfree"
    /\ Release(LabelString, "std::allocator", LabelBytes_ca[run])
    /\ IF run = 1
       THEN run' = 2 /\ pc' = "ca_label"
       ELSE pc' = "ca_delete" /\ UNCHANGED run
    /\ UNCHANGED <<prog, numaNodes, i, timer, reported, sum, ptr,
                   trades, contents, touched, constructed,
                   destructed, cpuNode, scanLog, tpc, ti,
                   treg, dataFalse, dataNoFalse>>

\* delete[] unalignedArr;
CaDeleteScalar ==
    /\ prog = "cache_alignment" /\ pc = "ca_delete"
    /\ Release(ptr["unalignedArr"], "delete", 0)
    /\ pc' = "ca_free"
    /\ UNCHANGED <<prog, numaNodes, run, i, timer, reported, sum,
                   ptr, trades, contents, touched,
                   constructed, destructed, cpuNode, scanLog,
                   tpc, ti, treg, dataFalse, dataNoFalse>>
CaDelete ==
    /\ prog = "cache_alignment" /\ pc = "ca_delete"
    /\ Release(ptr["unalignedArr"], "delete[]", 0)
    /\ pc' = "ca_free"
    /\ UNCHANGED <<prog, numaNodes, run, i, timer, reported, sum,
                   ptr, trades, contents, touched,
                   constructed, destructed, cpuNode, scanLog,
                   tpc, ti, treg, dataFalse, dataNoFalse>>

\* std::free(alignedArr); return 0;
CaFree ==
    /\ prog = "cache_alignment" /\ pc = "ca_free"
    /\ Release(ptr["alignedArr"], "free", 0)
    /\ pc' = "exit0"
    /\ UNCHANGED <<prog, numaNodes, run, i, timer, reported, sum,
                   ptr, trades, contents, touched,
                   constructed, destructed, cpuNode, scanLog,
                   tpc, ti, treg, dataFalse, dataNoFalse>>

CacheAlignment ==
    \/ CaNew
    \/ CaMemset1
    \/ CaAlignedAlloc
    \/ CaAssert
    \/ CaMemset2
    \/ CaLabel
    \/ CaBenchStart
    \/ CaBenchScan
    \/ CaBenchEnd
    \/ CaBenchReport
    \/ CaLabelFree
    \/ CaDelete
    \/ CaFree

\* ===================================================== soa_vs_aos
\* src/soa_vs_aos/soa_vs_aos.cpp, lines 75-128

Labels_soa == <<"AoS read", "SoA read">>

\* the members of ParticlesSoA, in declaration order
SoAFields == <<"x", "y", "z">>

\* the x field of every element of an element-major array (x, y, z per element)
AoSFieldX(c) == [k \in 1 .. (Len(c) \div 3) |-> c[3 * (k - 1) + 1]]

\* runAoSBenchmark: std::vector<ParticleAoS> particles(NUM_PARTICLES);
\* one allocation, value-initialised; throws std::bad_alloc on failure.
AoSAlloc ==
    /\ prog = "soa_vs_aos" /\ pc = "ao_alloc"
    /\ \/ /\ Acquire(<<"particles", 0>>, "std::allocator", SizeofParticleAoS * NumParticles)
          /\ ptr' = [ptr EXCEPT !["particles"] = <<"particles", 0>>]
          /\ contents' = [contents EXCEPT !["particles"] = Zeros(3 * NumParticles)]
          /\ pc' = "ao_start"
       \/ /\ AcqFail("std::allocator", SizeofParticleAoS * NumParticles)
          /\ pc' = "terminate"
          /\ UNCHANGED <<ptr, contents>>
    /\ UNCHANGED <<prog, numaNodes, run, i, timer, reported, sum,
                   trades, touched, constructed, destructed,
                   cpuNode, scanLog, tpc, ti, treg,
                   dataFalse, dataNoFalse>>

\* runAoSBenchmark: auto start = now(); float sum = 0.0f;
AoSStart ==
    /\ prog = "soa_vs_aos" /\ pc = "ao_start"
    /\ timer' = "running"
    /\ sum' = 0
    /\ pc' = "ao_scan"
    /\ UNCHANGED <<prog, numaNodes, run, i, reported, live, acqLog,
                   relLog, failed, ptr, trades, contents,
                   touched, constructed, destructed, cpuNode,
                   scanLog, tpc, ti, treg, dataFalse,
                   dataNoFalse>>

\* runAoSBenchmark: for (i < NUM_PARTICLES) sum += particles[i].x;
AoSScan ==
    /\ prog = "soa_vs_aos" /\ pc = "ao_scan"
    /\ sum' = sum + SumSeq(AoSFieldX(contents["particles"]))
    /\ touched' = touched \cup {<<ptr["particles"], Labels_soa[1]>>}
    /\ pc' = "ao_end"
    /\ UNCHANGED <<prog, numaNodes, run, i, timer, reported, live,
                   acqLog, relLog, failed, ptr, trades,
                   contents, constructed, destructed,
                   cpuNode, scanLog, tpc, ti, treg,
                   dataFalse, dataNoFalse>>

\* runAoSBenchmark: auto end = now();
AoSEnd ==
    /\ prog = "soa_vs_aos" /\ pc = "ao_end"
    /\ timer' = "stopped"
    /\ pc' = "ao_report"
    /\ UNCHANGED <<prog, numaNodes, run, i, reported, sum, live,
                   acqLog, relLog, failed, ptr, trades,
                   contents, touched, constructed,
                   destructed, cpuNode, scanLog, tpc, ti,
                   treg, dataFalse, dataNoFalse>>

\* runAoSBenchmark: std::cout << "AoS read took: " ...
AoSReport ==
    /\ prog = "soa_vs_aos" /\ pc = "ao_report"
    /\ reported' = Append(reported, Labels_soa[1])
    /\ timer' = "idle"
    /\ pc' = "ao_ret"
    /\ UNCHANGED <<prog, numaNodes, run, i, sum, live, acqLog,
                   relLog, failed, ptr, trades, contents,
                   touched, constructed, destructed, cpuNode,
                   scanLog, tpc, ti, treg, dataFalse,
                   dataNoFalse>>

\* runAoSBenchmark: closing brace -- the vector is destroyed; main calls
\* runSoABenchmark
AoSReturn ==
    /\ prog = "soa_vs_aos" /\ pc = "ao_ret"
    /\ Release(ptr["particles"], "std::allocator", SizeofParticleAoS * NumParticles)
    /\ run' = 2
    /\ i' = 0
    /\ pc' = "so_alloc"
    /\ UNCHANGED <<prog, numaNodes, timer, reported, sum, ptr,
                   trades, contents, touched, constructed,
                   destructed, cpuNode, scanLog, tpc, ti,
                   treg, dataFalse, dataNoFalse>>

\* runSoABenchmark: ParticlesSoA particles(NUM_PARTICLES);
\* the constructor resizes x, y, z in turn: one allocation each, which
\* throws std::bad_alloc on failure.
SoAAlloc ==
    /\ prog = "soa_vs_aos" /\ pc = "so_alloc"
    /\ IF i < Len(SoAFields)
       THEN \/ /\ Acquire(<<SoAFields[i + 1], 0>>, "std::allocator", SizeofFloat * NumParticles)
               /\ ptr' = [ptr EXCEPT ![SoAFields[i + 1]] = <<SoAFields[i + 1], 0>>]
               /\ contents' = [contents EXCEPT ![SoAFields[i + 1]] = Zeros(NumParticles)]
               /\ i' = i + 1
               /\ pc' = "so_alloc"
            \/ /\ AcqFail("std::allocator", SizeofFloat * NumParticles)
               /\ pc' = "terminate"
               /\ UNCHANGED <<ptr, contents, i>>
       ELSE /\ pc' = "so_start"
            /\ UNCHANGED <<live, acqLog, relLog, failed, ptr, contents, i>>
    /\ UNCHANGED <<prog, numaNodes, run, timer, reported, sum,
                   trades, touched, constructed, destructed,
                   cpuNode, scanLog, tpc, ti, treg,
                   dataFalse, dataNoFalse>>

\* runSoABenchmark: auto start = now(); float sum = 0.0f;
SoAStart ==
    /\ prog = "soa_vs_aos" /\ pc = "so_start"
    /\ timer' = "running"
    /\ sum' = 0
    /\ pc' = "so_scan"
    /\ UNCHANGED <<prog, numaNodes, run, i, reported, live, acqLog,
                   relLog, failed, ptr, trades, contents,
                   touched, constructed, destructed, cpuNode,
                   scanLog, tpc, ti, treg, dataFalse,
                   dataNoFalse>>

\* runSoABenchmark: for (i < NUM_PARTICLES) sum += particles.x[i];
SoAScan ==
    /\ prog = "soa_vs_aos" /\ pc = "so_scan"
    /\ sum' = sum + SumSeq(contents["x"])
    /\ touched' = touched \cup {<<ptr["x"], Labels_soa[2]>>}
    /\ pc' = "so_end"
    /\ UNCHANGED <<prog, numaNodes, run, i, timer, reported, live,
                   acqLog, relLog, failed, ptr, trades,
                   contents, constructed, destructed,
                   cpuNode, scanLog, tpc, ti, treg,
                   dataFalse, dataNoFalse>>

\* runSoABenchmark: auto end = now();
SoAEnd ==
    /\ prog = "soa_vs_aos" /\ pc = "so_end"
    /\ timer' = "stopped"
    /\ pc' = "so_report"
    /\ UNCHANGED <<prog, numaNodes, run, i, reported, sum, live,
                   acqLog, relLog, failed, ptr, trades,
                   contents, touched, constructed,
                   destructed, cpuNode, scanLog, tpc, ti,
                   treg, dataFalse, dataNoFalse>>

\* runSoABenchmark: std::cout << "SoA read took: " ...
SoAReport ==
    /\ prog = "soa_vs_aos" /\ pc = "so_report"
    /\ reported' = Append(reported, Labels_soa[2])
    /\ timer' = "idle"
    /\ i' = 0
    /\ pc' = "so_ret"
    /\ UNCHANGED <<prog, numaNodes, run, sum, live, acqLog, relLog,
                   failed, ptr, trades, contents, touched,
                   constructed, destructed, cpuNode, scanLog,
                   tpc, ti, treg, dataFalse, dataNoFalse>>

\* runSoABenchmark: closing brace -- z, y, x are destroyed (reverse order of
\* declaration); then main returns 0
SoAReturn ==
    /\ prog = "soa_vs_aos" /\ pc = "so_ret"
    /\ IF i < Len(SoAFields)
       THEN /\ Release(ptr[SoAFields[Len(SoAFields) - i]], "std::allocator",
                       SizeofFloat * NumParticles)
            /\ i' = i + 1
            /\ pc' = "so_ret"
       ELSE /\ pc' = "exit0"
            /\ UNCHANGED <<live, acqLog, relLog, failed, i>>
    /\ UNCHANGED <<prog, numaNodes, run, timer, reported, sum, ptr,
                   trades, contents, touched, constructed,
                   destructed, cpuNode, scanLog, tpc, ti,
                   treg, dataFalse, dataNoFalse>>

SoaVsAos ==
    \/ AoSAlloc
    \/ AoSStart
    \/ AoSScan
    \/ AoSEnd
    \/ AoSReport
    \/ AoSReturn
    \/ SoAAlloc
    \/ SoAStart
    \/ SoAScan
    \/ SoAEnd
    \/ SoAReport
    \/ SoAReturn

\* ===================================================== heap_vs_pool
\* src/soa_vs_aos/soa_vs_aos.cpp, lines 182-245

Labels_hp == <<"Heap Allocation", "Pool Allocation">>

PoolBytes == SizeofTrade * NumObjects

\* the buffer of std::vector<Trade*> trades when its capacity is c
TradesBuf(c) == <<"trades_buf", c>>

\* capacity of trades: that of its outstanding buffer, 0 when it has none
Cap == IF \E b \in live : b.id[1] = "trades_buf"
       THEN (CHOOSE b \in live : b.id[1] = "trades_buf").id[2]
       ELSE 0

\* capacity push_back grows a full vector to (libstdc++: doubling)
NewCap == IF Cap = 0 THEN 1 ELSE 2 * Cap

\* heapAllocationBenchmark: auto start = now(); std::vector<Trade*> trades;
HeapStartUntimed ==
    /\ prog = "heap_vs_pool" /\ pc = "hp_start"
    /\ trades' = <<>>
    /\ i' = 0
    /\ pc' = "hp_new"
    /\ UNCHANGED <<prog, numaNodes, run, timer, reported, sum, live,
                   acqLog, relLog, failed, ptr, contents,
                   touched, constructed, destructed, cpuNode,
                   scanLog, tpc, ti, treg, dataFalse,
                   dataNoFalse>>
HeapStart ==
    /\ prog = "heap_vs_pool" /\ pc = "hp_start"
    /\ timer' = "running"
    /\ trades' = <<>>
    /\ i' = 0
    /\ pc' = "hp_new"
    /\ UNCHANGED <<prog, numaNodes, run, reported, sum, live,
                   acqLog, relLog, failed, ptr, contents,
                   touched, constructed, destructed, cpuNode,
                   scanLog, tpc, ti, treg, dataFalse,
                   dataNoFalse>>

\* for (i < NUM_OBJECTS) ... new Trade{static_cast<int>(i), 100.5 + i, 10}
\* operator new throws std::bad_alloc on failure; nothing catches it, so the
\* elements allocated so far stay allocated when the process terminates.
HeapNew ==
    /\ prog = "heap_vs_pool" /\ pc = "hp_new"
    /\ IF i < NumObjects
       THEN \/ /\ Acquire(<<"trade", i>>, "new", SizeofTrade)
               /\ ptr' = [ptr EXCEPT !["newTrade"] = <<"trade", i>>]
               /\ touched' = touched \cup {<<(<<"trade", i>>), Labels_hp[1]>>}
               /\ pc' = "hp_push"
               /\ UNCHANGED i
            \/ /\ AcqFail("new", SizeofTrade)
               /\ pc' = "terminate"
               /\ UNCHANGED <<ptr, touched, i>>
       ELSE /\ i' = 0
            /\ pc' = "hp_delete"
            /\ UNCHANGED <<live, acqLog, relLog, failed, ptr, touched>>
    /\ UNCHANGED <<prog, numaNodes, run, timer, reported, sum,
                   trades, contents, constructed, destructed,
                   cpuNode, scanLog, tpc, ti, treg,
                   dataFalse, dataNoFalse>>

\* trades.push_back(<the new Trade*>);  ++i
\* A full vector allocates a larger buffer, moves the elements and frees the
\* old buffer; when that allocation throws, the Trade just created is
\* outstanding and the process terminates.
HeapPush ==
    /\ prog = "heap_vs_pool" /\ pc = "hp_push"
    /\ IF Len(trades) = Cap
       THEN \/ /\ live' = {b \in live : b.id # TradesBuf(Cap)} \cup
                          {[id |-> TradesBuf(NewCap), prov |-> "std::allocator",
                            size |-> SizeofTradePtr * NewCap]}
               /\ acqLog' = Append(acqLog, [id |-> TradesBuf(NewCap),
                                            prov |-> "std::allocator",
                                            size |-> SizeofTradePtr * NewCap])
               /\ relLog' = IF Cap = 0 THEN relLog
                            ELSE Append(relLog, [id |-> TradesBuf(Cap),
                                                 by |-> "std::allocator",
                                                 size |-> SizeofTradePtr * Cap])
               /\ trades' = Append(trades, ptr["newTrade"])
               /\ i' = i + 1
               /\ pc' = "hp_new"
               /\ UNCHANGED failed
            \/ /\ AcqFail("std::allocator", SizeofTradePtr * NewCap)
               /\ pc' = "terminate"
               /\ UNCHANGED <<trades, i>>
       ELSE /\ trades' = Append(trades, ptr["newTrade"])
            /\ i' = i + 1
            /\ pc' = "hp_new"
            /\ UNCHANGED <<live, acqLog, relLog, failed>>
    /\ UNCHANGED <<prog, numaNodes, run, timer, reported, sum, ptr,
                   contents, touched, constructed,
                   destructed, cpuNode, scanLog, tpc, ti,
                   treg, dataFalse, dataNoFalse>>

\* for (auto t : trades) ...   -- the loop runs over the whole vector
HeapDeleteCondShort(n) == n < Len(trades) - 1
HeapDeleteCond(n) == n < Len(trades)

\* for (auto t : trades) delete t;
HeapDelete ==
    /\ prog = "heap_vs_pool" /\ pc = "hp_delete"
    /\ IF HeapDeleteCond(i)
       THEN /\ Release(trades[i + 1], "delete", 0)
            /\ i' = i + 1
            /\ pc' = "hp_delete"
       ELSE /\ pc' = "hp_end"
            /\ UNCHANGED <<live, acqLog, relLog, failed, i>>
    /\ UNCHANGED <<prog, numaNodes, run, timer, reported, sum, ptr,
                   trades, contents, touched, constructed,
                   destructed, cpuNode, scanLog, tpc, ti,
                   treg, dataFalse, dataNoFalse>>

\* heapAllocationBenchmark: auto end = now();
HeapEnd ==
    /\ prog = "heap_vs_pool" /\ pc = "hp_end"
    /\ timer' = "stopped"
    /\ pc' = "hp_report"
    /\ UNCHANGED <<prog, numaNodes, run, i, reported, sum, live,
                   acqLog, relLog, failed, ptr, trades,
                   contents, touched, constructed,
                   destructed, cpuNode, scanLog, tpc, ti,
                   treg, dataFalse, dataNoFalse>>

\* heapAllocationBenchmark: std::cout << "Heap Allocation took: " ...
HeapReport ==
    /\ prog = "heap_vs_pool" /\ pc = "hp_report"
    /\ reported' = Append(reported, Labels_hp[1])
    /\ timer' = "idle"
    /\ pc' = "hp_ret"
    /\ UNCHANGED <<prog, numaNodes, run, i, sum, live, acqLog,
                   relLog, failed, ptr, trades, contents,
                   touched, constructed, destructed, cpuNode,
                   scanLog, tpc, ti, treg, dataFalse,
                   dataNoFalse>>

\* heapAllocationBenchmark: closing brace -- trades is destroyed and frees its
\* buffer; main calls the pool variant
HeapReturn ==
    /\ prog = "heap_vs_pool" /\ pc = "hp_ret"
    /\ Release(IF Cap = 0 THEN Null ELSE TradesBuf(Cap), "std::allocator",
               SizeofTradePtr * Cap)
    /\ run' = 2
    /\ pc' = "pl_start"
    /\ UNCHANGED <<prog, numaNodes, i, timer, reported, sum, ptr,
                   trades, contents, touched, constructed,
                   destructed, cpuNode, scanLog, tpc, ti,
                   treg, dataFalse, dataNoFalse>>

\* poolAllocationBenchmark: auto start = now();
PoolStart ==
    /\ prog = "heap_vs_pool" /\ pc = "pl_start"
    /\ timer' = "running"
    /\ pc' = "pl_malloc"
    /\ UNCHANGED <<prog, numaNodes, run, i, reported, sum, live,
                   acqLog, relLog, failed, ptr, trades,
                   contents, touched, constructed,
                   destructed, cpuNode, scanLog, tpc, ti,
                   treg, dataFalse, dataNoFalse>>

\* void* memory = std::malloc(sizeof(Trade) * NUM_OBJECTS);  Trade* trades = memory;
\* malloc returns a null pointer on failure; the result is not tested.
PoolMalloc ==
    /\ prog = "heap_vs_pool" /\ pc = "pl_malloc"
    /\ \/ /\ Acquire(<<"pool", 0>>, "malloc", PoolBytes)
          /\ ptr' = [ptr EXCEPT !["memory"] = <<"pool", 0>>]
       \/ /\ AcqFail("malloc", PoolBytes)
          /\ UNCHANGED ptr
    /\ i' = 0
    /\ pc' = "pl_construct"
    /\ UNCHANGED <<prog, numaNodes, run, timer, reported, sum,
                   trades, contents, touched, constructed,
                   destructed, cpuNode, scanLog, tpc, ti,
                   treg, dataFalse, dataNoFalse>>

\* for (i < NUM_OBJECTS) new (&trades[i]) Trade{...};
\* With memory == nullptr the store is undefined: the process faults, or the
\* (never read) stores were removed by the optimizer and the loop goes on.
PoolConstruct ==
    /\ prog = "heap_vs_pool" /\ pc = "pl_construct"
    /\ IF i < NumObjects
       THEN \/ /\ constructed' = [constructed EXCEPT ![i] = constructed[i] + 1]
               /\ touched' = IF ptr["memory"] = Null THEN touched
                             ELSE touched \cup {<<ptr["memory"], Labels_hp[2]>>}
               /\ i' = i + 1
               /\ pc' = "pl_construct"
            \/ /\ ptr["memory"] = Null
               /\ pc' = "segv"
               /\ UNCHANGED <<constructed, touched, i>>
       ELSE /\ i' = 0
            /\ pc' = "pl_destruct"
            /\ UNCHANGED <<constructed, touched>>
    /\ UNCHANGED <<prog, numaNodes, run, timer, reported, sum, live,
                   acqLog, relLog, failed, ptr, trades,
                   contents, destructed, cpuNode, scanLog,
                   tpc, ti, treg, dataFalse, dataNoFalse>>

\* for (size_t i = 0; i < NUM_OBJECTS; ++i)   -- the destructor loop's test
PoolDestructCondShort(n) == n < NumObjects - 1
PoolDestructCond(n) == n < NumObjects

\* for (i < NUM_OBJECTS) trades[i].~Trade();   (Trade is trivially destructible:
\* the call touches no memory)
PoolDestruct ==
    /\ prog = "heap_vs_pool" /\ pc = "pl_destruct"
    /\ IF PoolDestructCond(i)
       THEN /\ destructed' = [destructed EXCEPT ![i] = destructed[i] + 1]
            /\ i' = i + 1
            /\ pc' = "pl_destruct"
       ELSE /\ pc' = "pl_free"
            /\ UNCHANGED <<destructed, i>>
    /\ UNCHANGED <<prog, numaNodes, run, timer, reported, sum, live,
                   acqLog, relLog, failed, ptr, trades,
                   contents, touched, constructed, cpuNode,
                   scanLog, tpc, ti, treg, dataFalse,
                   dataNoFalse>>

\* std::free(memory);
PoolFree ==
    /\ prog = "heap_vs_pool" /\ pc = "pl_free"
    /\ Release(ptr["memory"], "free", 0)
    /\ pc' = "pl_end"
    /\ UNCHANGED <<prog, numaNodes, run, i, timer, reported, sum,
                   ptr, trades, contents, touched,
                   constructed, destructed, cpuNode, scanLog,
                   tpc, ti, treg, dataFalse, dataNoFalse>>

\* poolAllocationBenchmark: auto end = now();
PoolEnd ==
    /\ prog = "heap_vs_pool" /\ pc = "pl_end"
    /\ timer' = "stopped"
    /\ pc' = "pl_report"
    /\ UNCHANGED <<prog, numaNodes, run, i, reported, sum, live,
                   acqLog, relLog, failed, ptr, trades,
                   contents, touched, constructed,
                   destructed, cpuNode, scanLog, tpc, ti,
                   treg, dataFalse, dataNoFalse>>

\* poolAllocationBenchmark: std::cout << ...; return; main returns 0
PoolReport ==
    /\ prog = "heap_vs_pool" /\ pc = "pl_report"
    /\ reported' = Append(reported, Labels_hp[2])
    /\ timer' = "idle"
    /\ pc' = "exit0"
    /\ UNCHANGED <<prog, numaNodes, run, i, sum, live, acqLog,
                   relLog, failed, ptr, trades, contents,
                   touched, constructed, destructed, cpuNode,
                   scanLog, tpc, ti, treg, dataFalse,
                   dataNoFalse>>

HeapVsPool ==
    \/ HeapStart
    \/ HeapNew
    \/ HeapPush
    \/ HeapDelete
    \/ HeapEnd
    \/ HeapReport
    \/ HeapReturn
    \/ PoolStart
    \/ PoolMalloc
    \/ PoolConstruct
    \/ PoolDestruct
    \/ PoolFree
    \/ PoolEnd
    \/ PoolReport

\* ===================================================== numa_access
\* src/numa_access/numa_access.cpp

Labels_nu == <<"Local access (Node 0)", "Remote access (Node 1)">>

\* bytes the std::string built from each label literal allocates
LabelBytes_nu == <<26, 27>>

\* the node main passes to the v-th runBenchmark call
BenchNode(v) == IF v = 1 THEN 0 ELSE 1

\* the node main allocates on
AllocNode == 0

\* if (numa_available() == -1) { std::cerr << ...; return 1; }
NuAvailable ==
    /\ prog = "numa_access" /\ pc = "nu_available"
    /\ pc' = IF numaNodes = 0 THEN "exit1" ELSE "nu_alloc"
    /\ UNCHANGED <<prog, numaNodes, run, i, timer, reported, sum,
                   live, acqLog, relLog, failed, ptr, trades,
                   contents, touched, constructed,
                   destructed, cpuNode, scanLog, tpc, ti,
                   treg, dataFalse, dataNoFalse>>

\* void* memory = numa_alloc_onnode(DATA_SIZE, 0);
\* returns zero-filled pages, or a null pointer on failure; not tested.
\* When libnuma cannot allocate its own node mask it prints a message and
\* calls exit(1) inside the call.
NuAlloc ==
    /\ prog = "numa_access" /\ pc = "nu_alloc"
    /\ \/ /\ Acquire(<<"memory", AllocNode>>, "numa_alloc_onnode", DataSize)
          /\ ptr' = [ptr EXCEPT !["memory"] = <<"memory", AllocNode>>]
          /\ contents' = [contents EXCEPT !["memory"] = Zeros(DataSize)]
          /\ pc' = "nu_label"
       \/ /\ AcqFail("numa_alloc_onnode", DataSize)
          /\ pc' = "nu_label"
          /\ UNCHANGED <<ptr, contents>>
       \/ /\ AcqFail("libnuma bitmask", LibnumaMaskBytes)
          /\ pc' = "exit1"
          /\ UNCHANGED <<ptr, contents>>
    /\ UNCHANGED <<prog, numaNodes, run, i, timer, reported, sum,
                   trades, touched, constructed, destructed,
                   cpuNode, scanLog, tpc, ti, treg,
                   dataFalse, dataNoFalse>>

\* main: runBenchmark(memory, node, "...") -- the std::string temporary for
\* the label parameter is built before the call; its allocation throws
\* std::bad_alloc on failure.
NuLabel ==
    /\ prog = "numa_access" /\ pc = "nu_label"
    /\ \/ /\ Acquire(LabelString, "std::allocator", LabelBytes_nu[run])
          /\ pc' = "nu_bind"
       \/ /\ AcqFail("std::allocator", LabelBytes_nu[run])
          /\ pc' = "terminate"
    /\ UNCHANGED <<prog, numaNodes, run, i, timer, reported, sum,
                   ptr, trades, contents, touched,
                   constructed, destructed, cpuNode, scanLog,
                   tpc, ti, treg, dataFalse, dataNoFalse>>

\* runBenchmark: numa_run_on_node(node);
\* binds the thread to the node's cpus.  The call returns -1 and leaves the
\* thread where it was when the node does not exist or has no cpus, when the
\* affinity cannot be set, or when an allocation made while reading the
\* node's cpu list fails; the return value is discarded and the benchmark
\* goes on.  Inside the call libnuma also allocates its own masks: when the
\* bitmask allocation fails it prints a message and calls exit(1); when its
\* unchecked calloc(1024, 8) fails the process faults.
NuBind ==
    /\ prog = "numa_access" /\ pc = "nu_bind"
    /\ \/ /\ BenchNode(run) < numaNodes
          /\ cpuNode' = BenchNode(run)
          /\ pc' = "nu_start"
          /\ UNCHANGED failed
       \/ /\ pc' = "nu_start"
          /\ UNCHANGED <<cpuNode, failed>>
       \/ /\ failed' = failed \cup {[prov |-> "libnuma malloc", size |-> LibnumaStreamBytes]}
          /\ pc' = "nu_start"
          /\ UNCHANGED cpuNode
       \/ /\ failed' = failed \cup {[prov |-> "libnuma bitmask", size |-> LibnumaMaskBytes]}
          /\ pc' = "exit1"
          /\ UNCHANGED cpuNode
       \/ /\ failed' = failed \cup {[prov |-> "libnuma calloc", size |-> 1024 * 8]}
          /\ pc' = "segv"
          /\ UNCHANGED cpuNode
    /\ UNCHANGED <<prog, numaNodes, run, i, timer, reported, sum,
                   live, acqLog, relLog, ptr, trades,
                   contents, touched, constructed,
                   destructed, scanLog, tpc, ti, treg,
                   dataFalse, dataNoFalse>>

\* runBenchmark: volatile char* data = memory; auto start = now();
NuStart ==
    /\ prog = "numa_access" /\ pc = "nu_start"
    /\ timer' = "running"
    /\ i' = 0
    /\ pc' = "nu_scan"
    /\ UNCHANGED <<prog, numaNodes, run, reported, sum, live,
                   acqLog, relLog, failed, ptr, trades,
                   contents, touched, constructed,
                   destructed, cpuNode, scanLog, tpc, ti,
                   treg, dataFalse, dataNoFalse>>

\* runBenchmark: for (i < NUM_ITERATIONS) data[i % DATA_SIZE]++;
\* a volatile access through a null pointer faults.
NuScan ==
    /\ prog = "numa_access" /\ pc = "nu_scan"
    /\ IF i < NumaIterations
       THEN /\ scanLog' = scanLog \cup
                 {[node |-> BenchNode(run), blk |-> ptr["memory"], label |-> Labels_nu[run]]}
            /\ IF ptr["memory"] = Null
               THEN /\ pc' = "segv"
                    /\ UNCHANGED <<contents, touched, i>>
               ELSE /\ contents' = [contents EXCEPT !["memory"][(i % DataSize) + 1] =
                                        WrapChar(@ + 1)]
                    /\ touched' = touched \cup {<<ptr["memory"], Labels_nu[run]>>}
                    /\ i' = i + 1
                    /\ pc' = "nu_scan"
       ELSE /\ pc' = "nu_end"
            /\ UNCHANGED <<scanLog, contents, touched, i>>
    /\ UNCHANGED <<prog, numaNodes, run, timer, reported, sum, live,
                   acqLog, relLog, failed, ptr, trades,
                   constructed, destructed, cpuNode, tpc, ti,
                   treg, dataFalse, dataNoFalse>>

\* runBenchmark: auto end = now();
NuEnd ==
    /\ prog = "numa_access" /\ pc = "nu_end"
    /\ timer' = "stopped"
    /\ pc' = "nu_report"
    /\ UNCHANGED <<prog, numaNodes, run, i, reported, sum, live,
                   acqLog, relLog, failed, ptr, trades,
                   contents, touched, constructed,
                   destructed, cpuNode, scanLog, tpc, ti,
                   treg, dataFalse, dataNoFalse>>

\* runBenchmark: std::cout << label << ...; return
NuReport ==
    /\ prog = "numa_access" /\ pc = "nu_report"
    /\ reported' = Append(reported, Labels_nu[run])
    /\ timer' = "idle"
    /\ pc' = "nu_lfree"
    /\ UNCHANGED <<prog, numaNodes, run, i, sum, live, acqLog,
                   relLog, failed, ptr, trades, contents,
                   touched, constructed, destructed, cpuNode,
                   scanLog, tpc, ti, treg, dataFalse,
                   dataNoFalse>>

\* main: end of the full expression -- the label temporary is destroyed;
\* then the next runBenchmark call or the release
NuLabelFree ==
    /\ prog = "numa_access" /\ pc = "nu_lfree"
    /\ Release(LabelString, "std::allocator", LabelBytes_nu[run])
    /\ IF run = 1
       THEN run' = 2 /\ pc' = "nu_label"
       ELSE pc' = "nu_free" /\ UNCHANGED run
    /\ UNCHANGED <<prog, numaNodes, i, timer, reported, sum, ptr,
                   trades, contents, touched, constructed,
                   destructed, cpuNode, scanLog, tpc, ti,
                   treg, dataFalse, dataNoFalse>>

\* numa_free(memory, DATA_SIZE); return 0;
NuFree ==
    /\ prog = "numa_access" /\ pc = "nu_free"
    /\ Release(ptr["memory"], "numa_free", DataSize)
    /\ pc' = "exit0"
    /\ UNCHANGED <<prog, numaNodes, run, i, timer, reported, sum,
                   ptr, trades, contents, touched,
                   constructed, destructed, cpuNode, scanLog,
                   tpc, ti, treg, dataFalse, dataNoFalse>>

NumaAccess ==
    \/ NuAvailable
    \/ NuAlloc
    \/ NuLabel
    \/ NuBind
    \/ NuStart
    \/ NuScan
    \/ NuEnd
    \/ NuReport
    \/ NuLabelFree
    \/ NuFree

Next == FalseSharing \/ CacheAlignment \/ SoaVsAos \/ HeapVsPool \/ NumaAccess

Spec == Init /\ [][Next]_vars

\* ===================================================== properties

Terminated == pc \in Terminal

Range(f) == {f[k] : k \in DOMAIN f}

Labels == CASE prog = "false_sharing"   -> Labels_fs
            [] prog = "cache_alignment" -> Labels_ca
            [] prog = "soa_vs_aos"      -> Labels_soa
            [] prog = "heap_vs_pool"    -> Labels_hp
            [] prog = "numa_access"     -> Labels_nu

BothJoined == \A k \in Threads : tpc[k] = "joined"

\* C1: in both dual-actor variants, once both actors are joined the fields x
\* and y of the variant's global each hold exactly the iteration count; the
\* values of the first variant's global stay so while the second variant runs.
C1_NoLostIncrement ==
    prog = "false_sharing" =>
        /\ BothJoined => (CurData.x = NumIterations /\ CurData.y = NumIterations)
        /\ run = 2 => (dataFalse.x = NumIterations /\ dataFalse.y = NumIterations)

C1_Witness ==
    /\ prog = "false_sharing" /\ pc = "exit0" /\ BothJoined
    /\ dataNoFalse.y = NumIterations

\* C2: the end timestamp is taken only when every actor has performed all its
\* increments and has been joined, and an actor exists (spawned, not yet
\* joined) only after the start timestamp has been taken.
C2_StopAfterJoin ==
    prog = "false_sharing" =>
        /\ timer = "stopped" =>
              \A k \in Threads : tpc[k] = "joined" /\ ti[k] = NumIterations
        /\ \A k \in Threads : tpc[k] \notin {"unspawned", "joined"} => timer = "running"

C2_Witness ==
    /\ prog = "false_sharing" /\ run = 2 /\ timer = "stopped" /\ BothJoined

\* C3 (as claimed): whenever a program has ended, on any exit path, no region
\* it acquired is still outstanding.
C3_ReleasedOnEveryExit == Terminated => live = {}

PoolFreed == prog = "heap_vs_pool" /\ pc \in {"pl_end", "pl_report", "exit0"}

\* C4: in the pool experiment no slot is destructed more often than it was
\* constructed, no slot is constructed twice, and once the region has been
\* freed every slot has been constructed exactly once and destructed exactly
\* once (so nothing is constructed or destructed after the free).
C4_PoolLifetimes ==
    prog = "heap_vs_pool" =>
        /\ \A s \in Slots : destructed[s] <= constructed[s] /\ constructed[s] <= 1
        /\ PoolFreed => \A s \in Slots : constructed[s] = 1 /\ destructed[s] = 1

C4_Witness ==
    /\ prog = "heap_vs_pool" /\ pc = "pl_end"
    /\ \E k \in DOMAIN relLog : relLog[k].id = <<"pool", 0>>
    /\ \A s \in Slots : constructed[s] = 1

NoAcquisitionFailed == failed = {}

TimesReleased(id) == Cardinality({k \in DOMAIN relLog : relLog[k].id = id})

\* C5: on a run in which every acquisition succeeded, when the program has
\* ended no region is outstanding, every region acquired was released exactly
\* once, and as many elements were deleted as were allocated with new.
C5_NoLeakOnSuccess ==
    (Terminated /\ NoAcquisitionFailed) =>
        /\ live = {}
        /\ \A k \in DOMAIN acqLog : TimesReleased(acqLog[k].id) = 1
        /\ Len(relLog) = Len(acqLog)
        /\ Cardinality({k \in DOMAIN relLog : relLog[k].by = "delete"})
             = Cardinality({k \in DOMAIN acqLog : acqLog[k].prov = "new"})

C5_Witness ==
    /\ prog = "heap_vs_pool" /\ pc = "exit0" /\ failed = {}
    /\ Cardinality({k \in DOMAIN acqLog : acqLog[k].prov = "new"}) = NumObjects
    /\ live = {}

\* the release procedure that belongs to each acquisition procedure
Matching(prov) == CASE prov = "new[]"             -> "delete[]"
                    [] prov = "new"               -> "delete"
                    [] prov = "aligned_alloc"     -> "free"
                    [] prov = "malloc"            -> "free"
                    [] prov = "numa_alloc_onnode" -> "numa_free"
                    [] prov = "std::allocator"    -> "std::allocator"
                    [] prov = "new _State"        -> "delete _State"

\* C6: every release call is made on a region that was acquired, with the
\* release procedure matching the region's acquisition procedure, and a
\* node-aware free passes the size the region was allocated with.
C6_MatchingRelease ==
    \A k \in DOMAIN relLog :
        \E a \in DOMAIN acqLog :
            /\ acqLog[a].id = relLog[k].id
            /\ relLog[k].by = Matching(acqLog[a].prov)
            /\ acqLog[a].prov = "numa_alloc_onnode" => relLog[k].size = acqLog[a].size

C6_Witness ==
    /\ prog = "cache_alignment" /\ pc = "exit0"
    /\ \E k \in DOMAIN relLog : relLog[k].by = "delete[]"
    /\ \E k \in DOMAIN relLog : relLog[k].by = "free"

\* C7 (as claimed): a scan loop is entered only on a region whose allocation
\* succeeded and only by a run whose execution node exists.
C7_NoScanWithoutTopology ==
    \A s \in scanLog : s.node < numaNodes /\ s.blk # Null

\* the variants whose own acquisition or topology step failed: an exception,
\* or an exit or fault inside the binding call, belongs to the variant being set up
\* or run; the aligned array and the pool region belong to the second
\* variant; the NUMA block and the availability of NUMA to both
FailedVariants ==
    CASE prog = "false_sharing"   -> IF pc = "terminate" THEN {run} ELSE {}
      [] prog = "cache_alignment" -> IF pc = "terminate" THEN {run}
                                     ELSE IF pc \in {"abort", "segv"} THEN {2} ELSE {}
      [] prog = "soa_vs_aos"      -> IF pc = "terminate" THEN {run} ELSE {}
      [] prog = "heap_vs_pool"    -> IF pc = "terminate" THEN {1}
                                     ELSE IF pc = "segv" THEN {2} ELSE {}
      [] prog = "numa_access"     -> IF pc = "terminate" THEN {run}
                                     ELSE IF /\ pc \in {"exit1", "segv"}
                                             /\ ptr["memory"] # Null
                                             /\ \E b \in live : b.id = LabelString
                                          THEN {run}
                                     ELSE IF pc \in {"exit1", "segv"} THEN {1, 2} ELSE {}

\* C8 (as claimed): when a program has ended, every declared variant other
\* than the one that failed has reported its result.
C8_OtherVariantsReport ==
    Terminated => \A v \in {1, 2} \ FailedVariants : Labels[v] \in Range(reported)

\* C9 (as claimed): no acquisition or release step falls inside a timed window.
C9_NoAllocInWindow ==
    [][live' # live => (timer # "running" /\ timer' # "running")]_vars

\* the provenances of the experiments' data blocks (not library temporaries)
BlockProv == {"new[]", "aligned_alloc", "numa_alloc_onnode"}
BlockProc == {"delete[]", "free", "numa_free"}

\* C9 (amended): in the cache-alignment, AoS/SoA and NUMA programs no
\* acquisition or release step lies inside a timed window, the data block of
\* cache-alignment and NUMA is acquired before the first start timestamp and
\* released after the last end timestamp, and the NUMA binding is done before
\* the start timestamp; in the heap and pool experiments every acquisition
\* and release step lies inside the timed window, except the release of the
\* vector's buffer when heapAllocationBenchmark returns; in the false-sharing
\* experiments the thread states are acquired and released inside the window.
C9_WindowPerProgram ==
    [][ /\ live' # live =>
             CASE prog \in {"cache_alignment", "soa_vs_aos", "numa_access"} ->
                      timer = "idle" /\ timer' = "idle"
               [] prog = "false_sharing" ->
                      timer = "running" /\ timer' = "running"
               [] prog = "heap_vs_pool" ->
                      \/ timer = "running" /\ timer' = "running"
                      \/ pc = "hp_ret" /\ timer = "idle"
        /\ (/\ prog \in {"cache_alignment", "numa_access"}
            /\ Len(acqLog') > Len(acqLog)
            /\ acqLog'[Len(acqLog')].prov \in BlockProv) => reported = <<>>
        /\ (/\ prog \in {"cache_alignment", "numa_access"}
            /\ Len(relLog') > Len(relLog)
            /\ relLog'[Len(relLog')].by \in BlockProc) => Len(reported) = 2
        /\ pc = "nu_bind" => (timer = "idle" /\ timer' = "idle")
        /\ cpuNode' # cpuNode => pc' = "nu_start"
      ]_vars

C9_Witness ==
    /\ prog = "heap_vs_pool" /\ timer = "running" /\ Len(trades) = NumObjects
    /\ live # {}

\* C10 (as claimed): no region is accessed by two different runs.
C10_NoSharedBlock ==
    \A a \in touched : \A b \in touched : a[1] = b[1] => a[2] = b[2]

\* C10 (amended): in the false-sharing, cache-alignment, AoS/SoA and
\* heap-vs-pool programs no region is accessed by two different runs; in the
\* NUMA program the local and the remote run both work on the one region main
\* allocated, and the remote run starts on the contents the local run left.
C10_SharedOnlyInNuma ==
    /\ prog # "numa_access" => C10_NoSharedBlock
    /\ (prog = "numa_access" /\ pc = "exit0") =>
          touched = {<<ptr["memory"], Labels_nu[1]>>, <<ptr["memory"], Labels_nu[2]>>}
    /\ (prog = "numa_access" /\ run = 2 /\ pc = "nu_start" /\ ptr["memory"] # Null) =>
          contents["memory"] # Zeros(DataSize)

C10_Witness ==
    /\ prog = "numa_access" /\ pc = "exit0" /\ Cardinality(touched) = 2
    /\ contents["memory"] # Zeros(DataSize)

====
